---- MODULE Spec2Model ----
(***************************************************************************)
(* A model of the Sequence factory of src/src/index.js: frame sequences,   *)
(* their spec-string notation, chunking, set algebra, transforms and       *)
(* subsampling.  A Sequence instance is a closure over its own _frames     *)
(* array and _chunkSize; the model keeps every instance created so far in  *)
(* `seqs` (an instance's identity is its index) and the most recent call   *)
(* in `call`.                                                              *)
(***************************************************************************)
EXTENDS Integers, Sequences, FiniteSets, TLC

VARIABLES seqs, call, depth

vars == <<seqs, call, depth>>

----------------------------------------------------------------------------
(* Bounds of the model.                                                    *)

\* Number of calls in one behaviour of Spec.
MaxOps == 3
\* setChunkSize is called with values in -1..MaxChunk.
MaxChunk == 3
\* The Sequences given in SpecOps have their frames in -2..MaxFrame.
MaxFrame == 1
\* Longest spec string of SpecParse.
MaxStr == 6
\* The Sequences given in SpecRuns have their frames in 0..MaxRun.
MaxRun == 6
\* The Sequences given in SpecSample have up to MaxSample frames.
MaxSample == 8

----------------------------------------------------------------------------
(* Arrays and the sort/dedup idiom used throughout.                        *)

Max(a, b) == IF a >= b THEN a ELSE b
Min(a, b) == IF a <= b THEN a ELSE b

Range(f) == {f[i] : i \in DOMAIN f}

\* The comparator (a, b) => (a < b ? -1 : 1).
Compare(a, b) == IF a < b THEN -1 ELSE 1

\* Array.prototype.sort with that comparator, as an insertion sort: the
\* comparator is consistent on distinct values, which is all it is ever
\* given apart from equal endpoints in _range.
RECURSIVE InsertFrame(_, _)
InsertFrame(s, x) ==
  IF s = <<>> THEN <<x>>
  ELSE IF Compare(x, s[Len(s)]) < 0
       THEN Append(InsertFrame(SubSeq(s, 1, Len(s) - 1), x), s[Len(s)])
       ELSE Append(s, x)

RECURSIVE SortFrames(_)
SortFrames(arr) ==
  IF arr = <<>> THEN <<>>
  ELSE InsertFrame(SortFrames(SubSeq(arr, 1, Len(arr) - 1)), arr[Len(arr)])

\* [...new Set(arr)]: first occurrences, in insertion order.
RECURSIVE SetOf(_)
SetOf(arr) ==
  IF arr = <<>> THEN <<>>
  ELSE LET init == SetOf(SubSeq(arr, 1, Len(arr) - 1))
           x == arr[Len(arr)]
       IN IF x \in Range(init) THEN init ELSE Append(init, x)

\* Faulty variant of SortUnique: the sort is left out.
SortUniqueUnsorted(arr) == SetOf(arr)

\* [...new Set(arr)].sort((a, b) => (a < b ? -1 : 1))
SortUnique(arr) == SortFrames(SetOf(arr))

RECURSIVE Concat(_)
Concat(ss) == IF ss = <<>> THEN <<>> ELSE Head(ss) \o Concat(Tail(ss))

----------------------------------------------------------------------------
(* _range: the inclusive stepped range of the numeric constructor.         *)
(* args holds the arguments actually passed (1 to 3 integers); a missing   *)
(* one is JavaScript's undefined.                                          *)

RECURSIVE RangeLoop(_, _, _)
RangeLoop(i, last, stepVal) ==
  IF i <= last THEN <<i>> \o RangeLoop(i + stepVal, last, stepVal) ELSE <<>>

\* Faulty variant of _range: first and last are not put in order.
_rangeUnswapped(args) ==
  LET first0 == args[1]
      last0 == IF Len(args) < 2 THEN first0 ELSE args[2]
      step == IF Len(args) < 3 THEN 1 ELSE args[3]
  IN RangeLoop(first0, last0, Max(1, step))

_range(args) ==
  LET first0 == args[1]
      last0 == IF Len(args) < 2 THEN first0 ELSE args[2]
      step == IF Len(args) < 3 THEN 1 ELSE args[3]
      ends == SortFrames(<<first0, last0>>)
      stepVal == Max(1, step)
  IN RangeLoop(ends[1], ends[2], stepVal)

----------------------------------------------------------------------------
(* Strings are sequences of one-character strings.                         *)

Digits == <<"0", "1", "2", "3", "4", "5", "6", "7", "8", "9">>

IsDigit(c) == c \in Range(Digits)

DigitVal(c) == (CHOOSE d \in 1..10 : Digits[d] = c) - 1

\* Number-to-string conversion of a template literal `${n}`.
RECURSIVE NatToStr(_)
NatToStr(n) ==
  IF n < 10 THEN <<Digits[n + 1]>>
  ELSE Append(NatToStr(n \div 10), Digits[(n % 10) + 1])

NumToStr(n) == IF n < 0 THEN <<"-">> \o NatToStr(-n) ELSE NatToStr(n)

\* Math.trunc applied to a string that matched -?\d+: its decimal value.
RECURSIVE DigitsToNat(_)
DigitsToNat(s) ==
  IF s = <<>> THEN 0
  ELSE 10 * DigitsToNat(SubSeq(s, 1, Len(s) - 1)) + DigitVal(s[Len(s)])

MathTruncStr(s) ==
  IF s[1] = "-" THEN -DigitsToNat(Tail(s)) ELSE DigitsToNat(s)

\* SPLIT_SPEC_REGEX = /[\s,,]+/ : a run of whitespace or commas.
IsSeparator(c) == c \in {" ", ","}

RECURSIVE SkipSeparators(_, _)
SkipSeparators(s, i) ==
  IF i <= Len(s) /\ IsSeparator(s[i]) THEN SkipSeparators(s, i + 1) ELSE i

\* spec.split(SPLIT_SPEC_REGEX): the pieces between separator runs; a
\* leading or trailing run leaves an empty piece, and "" splits to [""].
RECURSIVE SplitFrom(_, _, _)
SplitFrom(s, i, piece) ==
  IF i > Len(s) THEN <<piece>>
  ELSE IF IsSeparator(s[i])
       THEN <<piece>> \o SplitFrom(s, SkipSeparators(s, i), <<>>)
       ELSE SplitFrom(s, i + 1, Append(piece, s[i]))

SplitSpec(s) == SplitFrom(s, 1, <<>>)

\* \d+ is greedy: the index of the last digit of the run starting at i
\* (i - 1 when s[i] is no digit).
RECURSIVE DigitsEnd(_, _)
DigitsEnd(s, i) ==
  IF i <= Len(s) /\ IsDigit(s[i]) THEN DigitsEnd(s, i + 1) ELSE i - 1

\* -?\d+ starting at i: the index after the match, or 0 when it fails.
ScanInt(s, i) ==
  LET j == IF i <= Len(s) /\ s[i] = "-" THEN i + 1 ELSE i
      k == DigitsEnd(s, j)
  IN IF k < j THEN 0 ELSE k + 1

\* Faulty variant of ScanStep: [0-9]+$, which lets a step of zero through.
ScanStepAnyDigits(s, i) ==
  /\ i <= Len(s)
  /\ IsDigit(s[i])
  /\ DigitsEnd(s, i) = Len(s)

\* [1-9][0-9]*$ starting at i.
ScanStep(s, i) ==
  /\ i <= Len(s)
  /\ IsDigit(s[i])
  /\ s[i] # "0"
  /\ DigitsEnd(s, i) = Len(s)

\* token.match(PROGRESSION_SPEC_REGEX), with
\* /^(?<first>-?\d+)(-(?<last>-?\d+)(x(?<step>[1-9][0-9]*))?)?$/ :
\* the groups that took part (first, last, step in this order), or no match.
MatchProgressionSpec(tok) ==
  LET n == Len(tok)
      p1 == ScanInt(tok, 1)
      p2 == IF p1 = 0 \/ p1 > n THEN 0 ELSE ScanInt(tok, p1 + 1)
      NoMatch == [matched |-> FALSE, groups |-> <<>>]
  IN IF p1 = 0 THEN NoMatch
     ELSE IF p1 = n + 1
          THEN [matched |-> TRUE, groups |-> <<SubSeq(tok, 1, p1 - 1)>>]
     ELSE IF tok[p1] # "-" \/ p2 = 0 THEN NoMatch
     ELSE IF p2 = n + 1
          THEN [matched |-> TRUE,
                groups |-> <<SubSeq(tok, 1, p1 - 1), SubSeq(tok, p1 + 1, p2 - 1)>>]
     ELSE IF tok[p2] # "x" \/ ~ScanStep(tok, p2 + 1) THEN NoMatch
     ELSE [matched |-> TRUE,
           groups |-> <<SubSeq(tok, 1, p1 - 1), SubSeq(tok, p1 + 1, p2 - 1),
                        SubSeq(tok, p2 + 1, n)>>]

\* The reduce over the tokens of a spec string: the frames pushed so far,
\* or the RangeError thrown at the first token that does not match.
RECURSIVE ReduceTokens(_)
ReduceTokens(toks) ==
  IF toks = <<>> THEN [err |-> "none", frames |-> <<>>]
  ELSE LET accum == ReduceTokens(SubSeq(toks, 1, Len(toks) - 1))
           m == MatchProgressionSpec(toks[Len(toks)])
       IN IF accum.err # "none" THEN accum
          ELSE IF m.matched
               THEN [err |-> "none",
                     frames |-> accum.frames \o
                       _range([i \in 1..Len(m.groups) |-> MathTruncStr(m.groups[i])])]
               ELSE [err |-> "RangeError", frames |-> <<>>]

\* _flatten, by the shape of the arguments: "none" (no argument), "number"
\* (args are the numbers passed), "string" (str is the spec string), "array"
\* (args are the integer elements), "undefined" (the first argument is
\* undefined: no branch is taken, the result is undefined, and spreading it
\* into _frames.push throws a TypeError).
_flatten(shape, args, str) ==
  CASE shape = "none" -> [err |-> "none", frames |-> <<>>]
    [] shape = "number" -> [err |-> "none", frames |-> _range(args)]
    [] shape = "string" ->
         LET r == ReduceTokens(SplitSpec(str))
         IN IF r.err # "none" THEN r
            ELSE [err |-> "none", frames |-> SortUnique(r.frames)]
    [] shape = "array" -> [err |-> "none", frames |-> SortUnique(args)]
    [] OTHER -> [err |-> "TypeError", frames |-> <<>>]

----------------------------------------------------------------------------
(* Progressions and the spec serializer.                                   *)

_isProgression(arr) ==
  IF Len(arr) < 3 THEN TRUE
  ELSE LET gap == arr[2] - arr[1]
       IN ~(\E i \in 2..Len(arr) : arr[i] - arr[i - 1] # gap)

\* Faulty variant of ProgressionStep: a run takes its third element
\* whatever the gap.
ProgressionStepLate(results, element) ==
  LET curr == results[Len(results)]
  IN IF ~(Len(curr) < 3 \/ curr[2] - curr[1] = element - curr[Len(curr)])
     THEN Append(results, <<element>>)
     ELSE [results EXCEPT ![Len(results)] = Append(curr, element)]

\* One step of the forEach of _progressions: results is the list of runs.
ProgressionStep(results, element) ==
  LET curr == results[Len(results)]
  IN IF ~(Len(curr) < 2 \/ curr[2] - curr[1] = element - curr[Len(curr)])
     THEN Append(results, <<element>>)
     ELSE [results EXCEPT ![Len(results)] = Append(curr, element)]

RECURSIVE ProgressionFold(_)
ProgressionFold(sorted) ==
  IF sorted = <<>> THEN << <<>> >>
  ELSE ProgressionStep(ProgressionFold(SubSeq(sorted, 1, Len(sorted) - 1)),
                       sorted[Len(sorted)])

_progressions(arr) == ProgressionFold(SortFrames(arr))

\* Faulty variant of RenderRun: the gap of a run is never written.
RenderRunNoStep(p) ==
  IF Len(p) = 1 THEN NumToStr(p[1])
  ELSE NumToStr(p[1]) \o <<"-">> \o NumToStr(p[Len(p)])

\* The rendering of one run by _spec.
RenderRun(p) ==
  IF Len(p) = 1 THEN NumToStr(p[1])
  ELSE LET gap == p[2] - p[1]
       IN IF gap = 1 THEN NumToStr(p[1]) \o <<"-">> \o NumToStr(p[Len(p)])
          ELSE NumToStr(p[1]) \o <<"-">> \o NumToStr(p[Len(p)]) \o <<"x">>
               \o NumToStr(gap)

RECURSIVE JoinComma(_)
JoinComma(parts) ==
  IF Len(parts) = 1 THEN parts[1]
  ELSE JoinComma(SubSeq(parts, 1, Len(parts) - 1)) \o <<",">> \o parts[Len(parts)]

_spec(arr) ==
  IF Len(arr) = 0 THEN <<>>
  ELSE LET ps == _progressions(arr)
       IN JoinComma([i \in 1..Len(ps) |-> RenderRun(ps[i])])

----------------------------------------------------------------------------
(* The arrays the operations hand to the constructor.                      *)

\* The forEach of chunks(): i is the index of the current frame, chunk the
\* frames collected since the last chunk was closed.
RECURSIVE ChunkLoop(_, _, _, _, _)
ChunkLoop(arr, i, chunk, chunkSize, enforceProgressions) ==
  IF i > Len(arr) THEN <<>>
  ELSE LET pushed == Append(chunk, arr[i])
           doNewChunk ==
             IF Len(pushed) = chunkSize THEN TRUE
             ELSE IF i = Len(arr) THEN TRUE
             ELSE enforceProgressions /\ ~_isProgression(Append(pushed, arr[i + 1]))
       IN IF doNewChunk
          THEN <<pushed>> \o ChunkLoop(arr, i + 1, <<>>, chunkSize, enforceProgressions)
          ELSE ChunkLoop(arr, i + 1, pushed, chunkSize, enforceProgressions)

\* Faulty variant of chunks: enforceProgressions is ignored.
chunksBySizeOnly(frames, chunkSize, enforceProgressions) ==
  ChunkLoop(frames, 1, <<>>, chunkSize, FALSE)

\* Faulty variant of chunks: a chunk is closed one frame too late.
chunksOverfull(frames, chunkSize, enforceProgressions) ==
  ChunkLoop(frames, 1, <<>>, chunkSize + 1, enforceProgressions)

chunks(frames, chunkSize, enforceProgressions) ==
  ChunkLoop(frames, 1, <<>>, chunkSize, enforceProgressions)

Includes(arr, f) == \E i \in DOMAIN arr : arr[i] = f

RECURSIVE Filter(_, _, _)
Filter(arr, other, keepIncluded) ==
  IF arr = <<>> THEN <<>>
  ELSE LET rest == Filter(Tail(arr), other, keepIncluded)
       IN IF Includes(other, Head(arr)) = keepIncluded
          THEN <<Head(arr)>> \o rest ELSE rest

intersection(frames, other_frames) == Filter(frames, other_frames, TRUE)

\* Faulty variant of union: the frames of the other Sequence are left out.
unionReceiverOnly(frames, other_frames) == frames

union(frames, other_frames) == frames \o other_frames

difference(frames, other_frames) == Filter(frames, other_frames, FALSE)

offset(frames, value) == [i \in 1..Len(frames) |-> frames[i] + value]

\* Math.trunc(f * value) of two integers is their product.
scale(frames, value) == [i \in 1..Len(frames) |-> frames[i] * value]

\* Faulty variant of setChunkSize: the value is stored unclamped.
setChunkSizeUnclamped(value) == value

\* setChunkSize: _chunkSize = Math.max(1, value)
setChunkSize(value) == Max(1, value)

----------------------------------------------------------------------------
(* subsample computes its positions in IEEE-754 double arithmetic.  Every  *)
(* value it meets is at least 0.5 and has at most 53 fraction bits, so a   *)
(* double is kept in fixed point: int is the integer part and frac the     *)
(* fraction, as four 14-bit words (frac[1] the most significant).          *)
(* Division and addition round to nearest, ties to even, at 53 significant *)
(* bits.                                                                   *)

\* Significant bits of a double.
Precision == 53

WordBase == 2^14

FracBits == 4 * 14

RECURSIVE BitLength(_)
BitLength(n) == IF n = 0 THEN 0 ELSE 1 + BitLength(n \div 2)

\* Fraction bit j of frac (bit 1 is worth 1/2).
FracBit(frac, j) ==
  (frac[((j - 1) \div 14) + 1] \div 2^(13 - ((j - 1) % 14))) % 2

\* frac + other, word by word: the sum's fraction and the carry into the
\* integer part.
AddWords(frac, other) ==
  LET s4 == frac[4] + other[4]
      s3 == frac[3] + other[3] + (s4 \div WordBase)
      s2 == frac[2] + other[2] + (s3 \div WordBase)
      s1 == frac[1] + other[1] + (s2 \div WordBase)
  IN [frac |-> <<s1 % WordBase, s2 % WordBase, s3 % WordBase, s4 % WordBase>>,
      carry |-> s1 \div WordBase]

\* The fraction of r/d (0 <= r < d), and the remainder left below it.
DivWords(r, d) ==
  LET q1 == (r * WordBase) \div d
      r1 == (r * WordBase) % d
      q2 == (r1 * WordBase) \div d
      r2 == (r1 * WordBase) % d
      q3 == (r2 * WordBase) \div d
      r3 == (r2 * WordBase) % d
      q4 == (r3 * WordBase) \div d
      r4 == (r3 * WordBase) % d
  IN [frac |-> <<q1, q2, q3, q4>>, rem |-> r4]

\* Fraction bits a double with this integer part keeps.
KeptBits(int) == Min(Precision, Precision - BitLength(int))

\* frac with the bits after bit keep cleared.
Truncate(frac, keep) ==
  [m \in 1..4 |->
     LET low == Max(0, Min(14, 14 * m - keep))
     IN frac[m] - (frac[m] % 2^low)]

\* One unit in fraction bit k (1 <= k <= FracBits).
UnitAt(k) ==
  [m \in 1..4 |-> IF m = ((k - 1) \div 14) + 1 THEN 2^(14 * m - k) ELSE 0]

\* Round to a double the value x, exact but for a non-zero rest below its
\* last fraction bit when inexact holds.
RoundDouble(x, inexact) ==
  LET keep == KeptBits(x.int)
      roundBit == FracBit(x.frac, keep + 1)
      sticky == inexact \/ \E j \in (keep + 2)..FracBits : FracBit(x.frac, j) = 1
      lsb == IF keep = 0 THEN x.int % 2 ELSE FracBit(x.frac, keep)
      cut == Truncate(x.frac, keep)
      up == AddWords(cut, UnitAt(keep))
  IN IF roundBit = 1 /\ (sticky \/ lsb = 1)
     THEN IF keep = 0 THEN [int |-> x.int + 1, frac |-> cut]
          ELSE [int |-> x.int + up.carry, frac |-> up.frac]
     ELSE [int |-> x.int, frac |-> cut]

\* n / count as a double (n >= count >= 1).
DoubleDiv(n, count) ==
  LET q == DivWords(n % count, count)
  IN RoundDouble([int |-> n \div count, frac |-> q.frac], q.rem # 0)

\* x / 2.0, exact: x has a fraction bit to spare.
DoubleHalf(x) ==
  [int |-> x.int \div 2,
   frac |-> [m \in 1..4 |->
               (IF m = 1 THEN x.int % 2 ELSE x.frac[m - 1] % 2) * 2^13
               + (x.frac[m] \div 2)]]

\* x + y as a double.
DoubleAdd(x, y) ==
  LET s == AddWords(x.frac, y.frac)
  IN RoundDouble([int |-> x.int + y.int + s.carry, frac |-> s.frac], FALSE)

\* The for loop of subsample: frames[Math.floor(pos)] for each i < count.
RECURSIVE SampleLoop(_, _, _, _, _)
SampleLoop(frames, i, count, pos, gap) ==
  IF i >= count THEN <<>>
  ELSE <<frames[pos.int + 1]>>
       \o SampleLoop(frames, i + 1, count, DoubleAdd(pos, gap), gap)

\* Faulty variant of subsample: the first position is 0, not gap / 2.
subsampleFromStart(frames, count0) ==
  LET n == Len(frames)
      count == Min(Max(1, count0), n)
  IN IF count = 0 THEN <<>>
     ELSE LET gap == DoubleDiv(n, count)
          IN SampleLoop(frames, 0, count, [int |-> 0, frac |-> <<0, 0, 0, 0>>], gap)

\* The array subsample hands to the constructor.  With no frames count is
\* clamped to 0 and the loop body never runs.
subsample(frames, count0) ==
  LET n == Len(frames)
      count == Min(Max(1, count0), n)
  IN IF count = 0 THEN <<>>
     ELSE LET gap == DoubleDiv(n, count)
          IN SampleLoop(frames, 0, count, DoubleHalf(gap), gap)

----------------------------------------------------------------------------
(* The instances and the calls made on them.                               *)
(*                                                                         *)
(* seqs[i] is the i-th Sequence returned to the caller: its _frames, its _chunkSize and   *)
(* (for the record only) the instance whose method created it, 0 when the  *)
(* caller constructed it.  call describes the latest call: the operation,  *)
(* the receiver self and its _chunkSize when called, the other Sequence,   *)
(* the arguments, the instances returned (res) and the error thrown.       *)

NoCall ==
  [op |-> "none", self |-> 0, cs |-> 0, other |-> 0, args |-> <<>>,
   flag |-> FALSE, str |-> <<>>, res |-> <<>>, ret |-> <<>>, err |-> "none"]

Init ==
  /\ seqs = <<>>
  /\ call = NoCall
  /\ depth = 0

Ids == 1..Len(seqs)

\* Sequence(...args): _frames.push(..._flatten(...args)) with _chunkSize = 1.
\* The outcomes are those of the constructor calls one operation makes, in
\* order; an error thrown by one of them leaves the caller with no instance.
Failed(outcomes) == \E k \in DOMAIN outcomes : outcomes[k].err # "none"

FirstError(outcomes) ==
  outcomes[CHOOSE k \in DOMAIN outcomes :
             /\ outcomes[k].err # "none"
             /\ \A j \in 1..(k - 1) : outcomes[j].err = "none"].err

Created(outcomes, chunkSize, parent) ==
  [k \in DOMAIN outcomes |->
     [frames |-> outcomes[k].frames, chunkSize |-> chunkSize, parent |-> parent]]

\* A call that returns the Sequences built from outcomes, each left with
\* chunkSize as its _chunkSize.
Returns(c, outcomes, chunkSize) ==
  IF Failed(outcomes)
  THEN /\ seqs' = seqs
       /\ call' = [c EXCEPT !.err = FirstError(outcomes)]
  ELSE /\ seqs' = seqs \o Created(outcomes, chunkSize, c.self)
       /\ call' = [c EXCEPT !.res = [k \in DOMAIN outcomes |-> Len(seqs) + k]]

On(op, i) == [NoCall EXCEPT !.op = op, !.self = i, !.cs = seqs[i].chunkSize]

FromArrays(arrays) ==
  [k \in DOMAIN arrays |-> _flatten("array", arrays[k], <<>>)]

\* Sequence()
NewEmpty ==
  /\ Returns([NoCall EXCEPT !.op = "Sequence()"],
             <<_flatten("none", <<>>, <<>>)>>, 1)
  /\ depth' = depth + 1

\* Sequence(first), Sequence(first, last), Sequence(first, last, step)
NewFromNumbers(args) ==
  /\ Returns([NoCall EXCEPT !.op = "Sequence(numbers)", !.args = args],
             <<_flatten("number", args, <<>>)>>, 1)
  /\ depth' = depth + 1

\* Sequence("<spec string>")
NewFromSpec(str) ==
  /\ Returns([NoCall EXCEPT !.op = "Sequence(spec)", !.str = str],
             <<_flatten("string", <<>>, str)>>, 1)
  /\ depth' = depth + 1

\* Sequence([...])
NewFromArray(arr) ==
  /\ Returns([NoCall EXCEPT !.op = "Sequence(array)", !.args = arr],
             <<_flatten("array", arr, <<>>)>>, 1)
  /\ depth' = depth + 1

\* Faulty variant of SetChunkSize: one _chunkSize shared by all instances.
SetChunkSizeShared(i, value) ==
  /\ seqs' = [j \in DOMAIN seqs |->
                [seqs[j] EXCEPT !.chunkSize = setChunkSize(value)]]
  /\ call' = [On("setChunkSize", i) EXCEPT !.args = <<value>>]
  /\ depth' = depth + 1

SetChunkSize(i, value) ==
  /\ seqs' = [seqs EXCEPT ![i].chunkSize = setChunkSize(value)]
  /\ call' = [On("setChunkSize", i) EXCEPT !.args = <<value>>]
  /\ depth' = depth + 1

Progressions(i) ==
  /\ Returns(On("progressions", i), FromArrays(_progressions(seqs[i].frames)), 1)
  /\ depth' = depth + 1

Chunks(i, enforceProgressions) ==
  /\ Returns([On("chunks", i) EXCEPT !.flag = enforceProgressions],
             FromArrays(chunks(seqs[i].frames, seqs[i].chunkSize,
                               enforceProgressions)), 1)
  /\ depth' = depth + 1

Intersection(i, o) ==
  /\ Returns([On("intersection", i) EXCEPT !.other = o],
             FromArrays(<<intersection(seqs[i].frames, seqs[o].frames)>>), 1)
  /\ depth' = depth + 1

Union(i, o) ==
  /\ Returns([On("union", i) EXCEPT !.other = o],
             FromArrays(<<union(seqs[i].frames, seqs[o].frames)>>), 1)
  /\ depth' = depth + 1

Difference(i, o) ==
  /\ Returns([On("difference", i) EXCEPT !.other = o],
             FromArrays(<<difference(seqs[i].frames, seqs[o].frames)>>), 1)
  /\ depth' = depth + 1

\* Faulty variant of Offset: the receiver's _chunkSize is not copied.
OffsetNoCopy(i, value) ==
  /\ Returns([On("offset", i) EXCEPT !.args = <<value>>],
             FromArrays(<<offset(seqs[i].frames, value)>>), 1)
  /\ depth' = depth + 1

\* offset, scale and fill end with s.setChunkSize(_chunkSize).
Offset(i, value) ==
  /\ Returns([On("offset", i) EXCEPT !.args = <<value>>],
             FromArrays(<<offset(seqs[i].frames, value)>>),
             setChunkSize(seqs[i].chunkSize))
  /\ depth' = depth + 1

Scale(i, value) ==
  /\ Returns([On("scale", i) EXCEPT !.args = <<value>>],
             FromArrays(<<scale(seqs[i].frames, value)>>),
             setChunkSize(seqs[i].chunkSize))
  /\ depth' = depth + 1

\* fill: Sequence(first(), last(), step); first() and last() are undefined
\* when there are no frames.
Fill(i, step) ==
  /\ LET frames == seqs[i].frames
         outcome == IF frames = <<>>
                    THEN _flatten("undefined", <<>>, <<>>)
                    ELSE _flatten("number", <<frames[1], frames[Len(frames)], step>>, <<>>)
     IN Returns([On("fill", i) EXCEPT !.args = <<step>>], <<outcome>>,
                setChunkSize(seqs[i].chunkSize))
  /\ depth' = depth + 1

Subsample(i, count) ==
  /\ Returns([On("subsample", i) EXCEPT !.args = <<count>>],
             FromArrays(<<subsample(seqs[i].frames, count)>>), 1)
  /\ depth' = depth + 1

\* Faulty variant of intersects: the fast path compares first() with the
\* other's first().
intersectsFirstWithFirst(frames, other_frames) ==
  IF /\ frames # <<>>
     /\ other_frames # <<>>
     /\ \/ frames[1] > other_frames[1]
        \/ frames[Len(frames)] < other_frames[1]
  THEN FALSE
  ELSE \E k \in DOMAIN frames : Includes(other_frames, frames[k])

\* intersects: the bounding-range test, then the membership test.  A
\* comparison with the undefined first() or last() of an empty Sequence is
\* false.
intersects(frames, other_frames) ==
  IF /\ frames # <<>>
     /\ other_frames # <<>>
     /\ \/ frames[1] > other_frames[Len(other_frames)]
        \/ frames[Len(frames)] < other_frames[1]
  THEN FALSE
  ELSE \E k \in DOMAIN frames : Includes(other_frames, frames[k])

\* Faulty variant of FilterIntersecting: every chunk is kept.
FilterIntersectingAll(cs, other_frames) == cs

RECURSIVE FilterIntersecting(_, _)
FilterIntersecting(cs, other_frames) ==
  IF cs = <<>> THEN <<>>
  ELSE LET rest == FilterIntersecting(Tail(cs), other_frames)
       IN IF intersects(_flatten("array", Head(cs), <<>>).frames, other_frames)
          THEN <<Head(cs)>> \o rest ELSE rest

\* intersectingChunks: chunks().filter(c => c.intersects(other))
IntersectingChunks(i, o) ==
  /\ Returns([On("intersectingChunks", i) EXCEPT !.other = o],
             FromArrays(FilterIntersecting(
               chunks(seqs[i].frames, seqs[i].chunkSize, TRUE), seqs[o].frames)), 1)
  /\ depth' = depth + 1

----------------------------------------------------------------------------
(* The methods that return a value and no Sequence.  The value is recorded *)
(* in call.ret: <<v>> for a value v, <<>> for undefined.  spec() records   *)
(* its string in call.str.                                                 *)

\* first: _frames[0]
firstFrame(frames) == IF frames = <<>> THEN <<>> ELSE <<frames[1]>>

\* last: _frames.slice(-1)[0]
lastFrame(frames) == IF frames = <<>> THEN <<>> ELSE <<frames[Len(frames)]>>

\* step: the gap of a progression, 1 below two frames, undefined otherwise.
stepOf(frames) ==
  IF _isProgression(frames)
  THEN IF Len(frames) > 1 THEN <<frames[2] - frames[1]>> ELSE <<1>>
  ELSE <<>>

length(frames) == Len(frames)

\* A call that returns without creating a Sequence.
Answers(c) ==
  /\ seqs' = seqs
  /\ call' = c
  /\ depth' = depth + 1

First(i) == Answers([On("first", i) EXCEPT !.ret = firstFrame(seqs[i].frames)])

Last(i) == Answers([On("last", i) EXCEPT !.ret = lastFrame(seqs[i].frames)])

Length(i) == Answers([On("length", i) EXCEPT !.ret = <<length(seqs[i].frames)>>])

Step(i) == Answers([On("step", i) EXCEPT !.ret = stepOf(seqs[i].frames)])

\* spec: _spec(_frames)
SpecString(i) == Answers([On("spec", i) EXCEPT !.str = _spec(seqs[i].frames)])

\* isProgression with its default argument, _frames.
IsProgression(i) ==
  Answers([On("isProgression", i) EXCEPT !.ret = <<_isProgression(seqs[i].frames)>>])

Intersects(i, o) ==
  Answers([On("intersects", i) EXCEPT
             !.other = o, !.ret = <<intersects(seqs[i].frames, seqs[o].frames)>>])

----------------------------------------------------------------------------
(* The calls a caller can make.  limit bounds the number of calls of one   *)
(* behaviour; the arguments are drawn from the sets given.                 *)

CallNewEmpty(limit) == depth < limit /\ NewEmpty

CallNewFromNumbers(limit, inputs) ==
  depth < limit /\ \E args \in inputs : NewFromNumbers(args)

CallNewFromSpec(limit, inputs) ==
  depth < limit /\ \E str \in inputs : NewFromSpec(str)

CallNewFromArray(limit, inputs) ==
  depth < limit /\ \E arr \in inputs : NewFromArray(arr)

\* Sequence(s.spec()) for a Sequence s the caller holds.
CallNewFromSpecOf(limit) ==
  depth < limit /\ \E i \in Ids : NewFromSpec(_spec(seqs[i].frames))

CallSetChunkSize(limit, values) ==
  depth < limit /\ \E i \in Ids : \E v \in values : SetChunkSize(i, v)

CallProgressions(limit) == depth < limit /\ \E i \in Ids : Progressions(i)

CallChunks(limit) == depth < limit /\ \E i \in Ids : \E e \in BOOLEAN : Chunks(i, e)

CallIntersection(limit) ==
  depth < limit /\ \E i \in Ids : \E o \in Ids : Intersection(i, o)

CallUnion(limit) == depth < limit /\ \E i \in Ids : \E o \in Ids : Union(i, o)

CallDifference(limit) ==
  depth < limit /\ \E i \in Ids : \E o \in Ids : Difference(i, o)

CallIntersectingChunks(limit) ==
  depth < limit /\ \E i \in Ids : \E o \in Ids : IntersectingChunks(i, o)

CallFirst(limit) == depth < limit /\ \E i \in Ids : First(i)

CallLast(limit) == depth < limit /\ \E i \in Ids : Last(i)

CallLength(limit) == depth < limit /\ \E i \in Ids : Length(i)

CallStep(limit) == depth < limit /\ \E i \in Ids : Step(i)

CallSpecString(limit) == depth < limit /\ \E i \in Ids : SpecString(i)

CallIsProgression(limit) == depth < limit /\ \E i \in Ids : IsProgression(i)

CallIntersects(limit) ==
  depth < limit /\ \E i \in Ids : \E o \in Ids : Intersects(i, o)

CallOffset(limit, values) ==
  depth < limit /\ \E i \in Ids : \E v \in values : Offset(i, v)

CallScale(limit, values) ==
  depth < limit /\ \E i \in Ids : \E v \in values : Scale(i, v)

CallFill(limit, values) ==
  depth < limit /\ \E i \in Ids : \E v \in values : Fill(i, v)

CallSubsample(limit, values) ==
  depth < limit /\ \E i \in Ids : \E v \in values : Subsample(i, v)

----------------------------------------------------------------------------
(* Spec: a session of up to MaxOps calls starting with no Sequence, the    *)
(* arguments drawn from a short catalogue.                                 *)

SessionNumbers == {<<1>>, <<0, 2>>, <<2, 0, 2>>}

SessionSpecs == {<<"0", "-", "2">>, <<"2", ",", "0">>, <<"1", "-">>}

SessionArrays == {<<2, 0, 1>>, <<1, 1>>}

SessionValues == {-1, 0, 2}

ChunkSizeInputs == -1..MaxChunk

Next ==
  \/ CallNewEmpty(MaxOps)
  \/ CallNewFromNumbers(MaxOps, SessionNumbers)
  \/ CallNewFromSpec(MaxOps, SessionSpecs)
  \/ CallNewFromArray(MaxOps, SessionArrays)
  \/ CallSetChunkSize(MaxOps, ChunkSizeInputs)
  \/ CallProgressions(MaxOps)
  \/ CallChunks(MaxOps)
  \/ CallIntersection(MaxOps)
  \/ CallUnion(MaxOps)
  \/ CallDifference(MaxOps)
  \/ CallIntersectingChunks(MaxOps)
  \/ CallOffset(MaxOps, SessionValues)
  \/ CallScale(MaxOps, SessionValues)
  \/ CallFill(MaxOps, SessionValues)
  \/ CallSubsample(MaxOps, SessionValues)

Spec == Init /\ [][Next]_vars

----------------------------------------------------------------------------
(* SpecOps: one call made by a caller who holds two Sequences a = seqs[1]  *)
(* and b = seqs[2], after a = Sequence(fa); a.setChunkSize(ca);            *)
(* b = Sequence(fb) for any frame lists fa, fb and any chunk size ca.      *)

OpsFrames == -2..MaxFrame

\* The frames of S in ascending order.
RECURSIVE Ascending(_)
Ascending(S) ==
  IF S = {} THEN <<>>
  ELSE LET least == CHOOSE x \in S : \A y \in S : x <= y
       IN <<least>> \o Ascending(S \ {least})

CanonicalLists == {Ascending(S) : S \in SUBSET OpsFrames}

InitOps ==
  /\ \E fa \in CanonicalLists : \E fb \in CanonicalLists : \E ca \in 1..MaxChunk :
       seqs = <<[frames |-> _flatten("array", fa, <<>>).frames,
                 chunkSize |-> setChunkSize(ca), parent |-> 0],
                [frames |-> _flatten("array", fb, <<>>).frames,
                 chunkSize |-> 1, parent |-> 0]>>
  /\ call = NoCall
  /\ depth = 0

OpsValues == -1..MaxFrame

\* Counts below 1, between 1 and the number of frames, and above it.
OpsCounts == -1..(MaxFrame + 4)

NextOps ==
  \/ CallNewFromSpecOf(1)
  \/ CallSetChunkSize(1, ChunkSizeInputs)
  \/ CallProgressions(1)
  \/ CallChunks(1)
  \/ CallIntersection(1)
  \/ CallUnion(1)
  \/ CallDifference(1)
  \/ CallIntersectingChunks(1)
  \/ CallOffset(1, OpsValues)
  \/ CallScale(1, OpsValues)
  \/ CallFill(1, OpsValues)
  \/ CallSubsample(1, OpsCounts)
  \/ CallFirst(1)
  \/ CallLast(1)
  \/ CallLength(1)
  \/ CallStep(1)
  \/ CallSpecString(1)
  \/ CallIsProgression(1)
  \/ CallIntersects(1)

SpecOps == InitOps /\ [][NextOps]_vars

----------------------------------------------------------------------------
(* SpecRange: one construction from numbers, or from a one-token spec      *)
(* string written from numbers.                                            *)

RangeEnds == OpsFrames

RangeSteps == -1..(MaxFrame + 1)

RangeInputs ==
  {<<f>> : f \in RangeEnds} \cup {<<f, l>> : f \in RangeEnds, l \in RangeEnds}
    \cup {<<f, l, s>> : f \in RangeEnds, l \in RangeEnds, s \in RangeSteps}

\* The token `${first}`, `${first}-${last}` or `${first}-${last}x${step}`.
Token(args) ==
  NumToStr(args[1])
    \o (IF Len(args) >= 2 THEN <<"-">> \o NumToStr(args[2]) ELSE <<>>)
    \o (IF Len(args) >= 3 THEN <<"x">> \o NumToStr(args[3]) ELSE <<>>)

\* The grammar admits a step only from 1 up.
TokenInputs == {args \in RangeInputs : Len(args) = 3 => args[3] >= 1}

NextRange ==
  \/ CallNewFromNumbers(1, RangeInputs)
  \/ CallNewFromSpec(1, {Token(args) : args \in TokenInputs})

SpecRange == Init /\ [][NextRange]_vars

----------------------------------------------------------------------------
(* SpecParse: one construction from any spec string of up to MaxStr        *)
(* characters.                                                             *)

ParseChars == {"0", "1", "-", "x", ",", " "}

\* Numbers of up to two digits keep the ranges short.
ShortNumbers(str) ==
  \A i \in 1..(Len(str) - 2) :
    ~(IsDigit(str[i]) /\ IsDigit(str[i + 1]) /\ IsDigit(str[i + 2]))

ParseInputs ==
  {str \in UNION {[1..n -> ParseChars] : n \in 0..MaxStr} : ShortNumbers(str)}

NextParse == CallNewFromSpec(1, ParseInputs)

SpecParse == Init /\ [][NextParse]_vars

----------------------------------------------------------------------------
(* SpecRuns: progressions() on one Sequence built from any ascending list  *)
(* over 0..MaxRun.                                                         *)

RunLists == {Ascending(S) : S \in SUBSET (0..MaxRun)}

InitRuns ==
  /\ \E fa \in RunLists :
       seqs = <<[frames |-> _flatten("array", fa, <<>>).frames,
                 chunkSize |-> 1, parent |-> 0]>>
  /\ call = NoCall
  /\ depth = 0

NextRuns == CallProgressions(1)

SpecRuns == InitRuns /\ [][NextRuns]_vars

----------------------------------------------------------------------------
(* SpecSample: subsample(count) on one Sequence of up to MaxSample evenly  *)
(* spaced frames, with counts from below 1 to above the number of frames.  *)

SampleLists ==
  {[k \in 1..n |-> lo + (k - 1) * gap] :
     <<n, lo, gap>> \in (0..MaxSample) \X {-3, 0} \X {1, 2}}

InitSample ==
  /\ \E fa \in SampleLists :
       seqs = <<[frames |-> _flatten("array", fa, <<>>).frames,
                 chunkSize |-> 1, parent |-> 0]>>
  /\ call = NoCall
  /\ depth = 0

NextSample == CallSubsample(1, -1..(MaxSample + 1))

SpecSample == InitSample /\ [][NextSample]_vars

----------------------------------------------------------------------------
(* Properties.                                                             *)

StrictlyAscending(frames) ==
  \A k \in 1..(Len(frames) - 1) : frames[k] < frames[k + 1]

FramesOf(i) == seqs[i].frames

Constructors ==
  {"Sequence()", "Sequence(numbers)", "Sequence(spec)", "Sequence(array)"}

\* C1: the frames of every Sequence, constructed in any of the four ways or
\* returned by any operation, are strictly ascending (so free of duplicates).
CanonicalForm == \A i \in Ids : StrictlyAscending(FramesOf(i))

\* A negative scale factor reverses the order of at least two frames before
\* the constructor sorts them.
CanonicalFormWitness ==
  /\ call.op = "scale"
  /\ call.args[1] < 0
  /\ call.err = "none"
  /\ Len(FramesOf(call.res[1])) >= 2

\* C2: for a Sequence with at least one frame, Sequence(s.spec()) succeeds
\* and has the frames of s.
RoundTrip ==
  \A i \in Ids :
    ( /\ call.op = "Sequence(spec)"
      /\ i \notin Range(call.res)
      /\ FramesOf(i) # <<>>
      /\ call.str = _spec(FramesOf(i)) )
    => /\ call.err = "none"
       /\ Len(call.res) = 1
       /\ FramesOf(call.res[1]) = FramesOf(i)

\* A round trip through a spec of several runs with a negative frame.
RoundTripWitness ==
  \E i \in Ids :
    /\ call.op = "Sequence(spec)"
    /\ call.err = "none"
    /\ i \notin Range(call.res)
    /\ call.str = _spec(FramesOf(i))
    /\ Len(FramesOf(i)) >= 3
    /\ FramesOf(i)[1] < 0
    /\ ~_isProgression(FramesOf(i))

\* The grammar of a token, first(-last(xstep)?)?, stated on its own.
IsInt(s) ==
  LET d == IF s # <<>> /\ s[1] = "-" THEN Tail(s) ELSE s
  IN d # <<>> /\ \A k \in DOMAIN d : IsDigit(d[k])

IsStep(s) == s # <<>> /\ s[1] # "0" /\ \A k \in DOMAIN s : IsDigit(s[k])

InGrammar(t) ==
  \/ IsInt(t)
  \/ \E p \in 2..(Len(t) - 1) :
       /\ t[p] = "-"
       /\ IsInt(SubSeq(t, 1, p - 1))
       /\ \/ IsInt(SubSeq(t, p + 1, Len(t)))
          \/ \E q \in (p + 2)..(Len(t) - 1) :
               /\ t[q] = "x"
               /\ IsInt(SubSeq(t, p + 1, q - 1))
               /\ IsStep(SubSeq(t, q + 1, Len(t)))

\* A token first-lastxstep whose step is zero or negative.
BadStep(t) ==
  \E p \in 2..(Len(t) - 1) : \E q \in (p + 2)..(Len(t) - 1) :
    /\ t[p] = "-"
    /\ t[q] = "x"
    /\ IsInt(SubSeq(t, 1, p - 1))
    /\ IsInt(SubSeq(t, p + 1, q - 1))
    /\ LET step == SubSeq(t, q + 1, Len(t))
       IN IsInt(step) /\ (step[1] = "-" \/ \A k \in DOMAIN step : step[k] = "0")

\* The pieces of str between its runs of separators: every maximal
\* separator-free stretch, and an empty piece before a leading run and after
\* a trailing one (the whole of an empty string is one empty piece).
TokensOf(str) ==
  {SubSeq(str, i, j) : <<i, j>> \in
     {<<i, j>> \in (1..(Len(str) + 1)) \X (0..Len(str)) :
        /\ j >= i - 1
        /\ \A k \in i..j : ~IsSeparator(str[k])
        /\ i = 1 \/ IsSeparator(str[i - 1])
        /\ j = Len(str) \/ IsSeparator(str[j + 1])
        /\ j = i - 1 => (i = 1 \/ i = Len(str) + 1)}}

\* C3: construction from a spec string throws the malformed-token error
\* exactly when one of its tokens fails the grammar, a zero or negative step
\* included; when it throws no Sequence is produced, whatever the other
\* tokens are.
MalformedToken ==
  call.op = "Sequence(spec)" =>
    /\ call.err = "RangeError" <=> \E t \in TokensOf(call.str) : ~InGrammar(t)
    /\ (\E t \in TokensOf(call.str) : BadStep(t)) => call.err = "RangeError"
    /\ call.err = "RangeError" => seqs = <<>> /\ call.res = <<>>
    /\ call.err # "RangeError" => call.err = "none" /\ Len(seqs) = 1

\* A string with a valid token and a malformed one.
MalformedTokenWitness ==
  /\ call.op = "Sequence(spec)"
  /\ call.err = "RangeError"
  /\ seqs = <<>>
  /\ \E t \in TokensOf(call.str) : InGrammar(t)
  /\ \E t \in TokensOf(call.str) : ~InGrammar(t)

\* The frames the range rule gives for first, last, step.
RangeRule(first, last, step) ==
  LET lo == Min(first, last)
      hi == Max(first, last)
      s == Max(1, step)
  IN Ascending({lo + k * s : k \in 0..(hi - lo)} \cap lo..hi)

\* first, last, step as the rule reads 1 to 3 arguments.
Rule(args) ==
  RangeRule(args[1],
            IF Len(args) >= 2 THEN args[2] ELSE args[1],
            IF Len(args) >= 3 THEN args[3] ELSE 1)

ResultFrames == [k \in DOMAIN call.res |-> FramesOf(call.res[k])]

\* C5: the chunks returned by chunks(), concatenated in order, are the
\* receiver's frames, and every chunk has between 1 and chunkSize frames,
\* for both values of enforceProgressions.
ChunkCoverage ==
  call.op = "chunks" =>
    /\ Concat(ResultFrames) = FramesOf(call.self)
    /\ \A k \in DOMAIN call.res :
         /\ Len(ResultFrames[k]) >= 1
         /\ Len(ResultFrames[k]) <= call.cs

\* A progression break closes a chunk before it is full.
ChunkCoverageWitness ==
  /\ call.op = "chunks"
  /\ call.flag
  /\ Len(call.res) >= 2
  /\ Len(ResultFrames[1]) >= 2
  /\ Len(ResultFrames[1]) < call.cs

\* C6: union, intersection and difference return the ascending list of the
\* set union, set intersection and set difference of the two frame sets, so
\* that intersection commutes and a.difference(a) is empty.
SetAlgebra ==
  LET A == Range(FramesOf(call.self))
      B == Range(FramesOf(call.other))
      result == FramesOf(call.res[1])
  IN /\ call.op = "union" => result = Ascending(A \cup B)
     /\ call.op = "intersection" =>
          /\ result = Ascending(A \cap B)
          /\ result = intersection(FramesOf(call.other), FramesOf(call.self))
     /\ call.op = "difference" =>
          /\ result = Ascending(A \ B)
          /\ call.self = call.other => result = <<>>

\* A union of two overlapping Sequences, neither containing the other.
SetAlgebraWitness ==
  LET A == Range(FramesOf(call.self))
      B == Range(FramesOf(call.other))
  IN /\ call.op = "union"
     /\ A \cap B # {}
     /\ A \ B # {}
     /\ B \ A # {}
     /\ FramesOf(call.self)[1] > FramesOf(call.other)[1]

\* Original reading of C7: subsample(count) with count >= n returns all n
\* frames, and subsample(1) returns exactly the frame at index floor(n/2),
\* for every n.
SubsampleBoundaryAnyLength ==
  call.op = "subsample" =>
    LET frames == FramesOf(call.self)
        n == Len(frames)
        result == FramesOf(call.res[1])
    IN /\ call.args[1] >= n => result = frames
       /\ call.args[1] = 1 =>
            Len(result) = 1 /\ result[1] = frames[(n \div 2) + 1]

\* C7: subsample(count) with count >= n returns all n frames in order, and
\* on a Sequence with at least one frame subsample(1) returns exactly one
\* frame, the one at index floor(n/2).
SubsampleBoundary ==
  call.op = "subsample" =>
    LET frames == FramesOf(call.self)
        n == Len(frames)
        result == FramesOf(call.res[1])
    IN /\ call.args[1] >= n => result = frames
       /\ (call.args[1] = 1 /\ n >= 1) =>
            Len(result) = 1 /\ result[1] = frames[(n \div 2) + 1]

\* subsample(1) on a Sequence of at least three frames.
SubsampleBoundaryWitness ==
  /\ call.op = "subsample"
  /\ call.args[1] = 1
  /\ Len(FramesOf(call.self)) >= 3
  /\ Len(FramesOf(call.res[1])) = 1

\* C8: no step changes the frames of an existing Sequence, and a step
\* changes the chunkSize of an existing Sequence only when it is
\* setChunkSize called on that very Sequence.
Independence ==
  [][ /\ Len(seqs') >= Len(seqs)
      /\ \A i \in Ids :
           /\ seqs'[i].frames = seqs[i].frames
           /\ seqs'[i].chunkSize # seqs[i].chunkSize =>
                call'.op = "setChunkSize" /\ call'.self = i ]_vars

\* setChunkSize on a Sequence from which another was derived earlier, which
\* keeps its own chunkSize.
IndependenceWitness ==
  /\ call.op = "setChunkSize"
  /\ seqs[call.self].chunkSize >= 2
  /\ \E j \in Ids :
       /\ seqs[j].parent = call.self
       /\ seqs[j].chunkSize # seqs[call.self].chunkSize

\* C9: offset, scale and fill return a Sequence with the receiver's
\* chunkSize at the time of the call; chunks, progressions, intersection,
\* union, difference, subsample and intersectingChunks return Sequences
\* with chunkSize 1.
Inheritance ==
  /\ call.op \in {"offset", "scale", "fill"} =>
       \A k \in DOMAIN call.res : seqs[call.res[k]].chunkSize = call.cs
  /\ call.op \in {"chunks", "progressions", "intersection", "union",
                  "difference", "subsample", "intersectingChunks"} =>
       \A k \in DOMAIN call.res : seqs[call.res[k]].chunkSize = 1

\* offset on a receiver whose chunkSize was raised above 1.
InheritanceWitness ==
  /\ call.op = "offset"
  /\ call.cs >= 2
  /\ Len(call.res) = 1
  /\ seqs[call.res[1]].chunkSize = call.cs

\* C10: every Sequence has chunkSize >= 1: 1 at construction, max(1, v)
\* after setChunkSize(v), and still >= 1 when offset, scale or fill copy it.
ChunkSizePositive ==
  /\ \A i \in Ids : seqs[i].chunkSize >= 1
  /\ call.op \in Constructors =>
       \A k \in DOMAIN call.res : seqs[call.res[k]].chunkSize = 1
  /\ call.op = "setChunkSize" =>
       seqs[call.self].chunkSize =
         (IF call.args[1] >= 1 THEN call.args[1] ELSE 1)

\* setChunkSize with zero or a negative value.
ChunkSizePositiveWitness ==
  /\ call.op = "setChunkSize"
  /\ call.args[1] <= 0
  /\ seqs[call.self].chunkSize = 1

\* The operations other than construction.
Operations ==
  {"first", "last", "length", "spec", "isProgression", "step", "progressions",
   "chunks", "intersects", "intersection", "union", "difference",
   "intersectingChunks", "offset", "scale", "fill", "subsample"}

\* C11: every operation other than construction completes without throwing
\* on every Sequence, the empty one included, and first() and last() of the
\* empty Sequence return undefined.
Totality ==
  /\ call.op \in Operations => call.err = "none"
  /\ (call.op \in {"first", "last"} /\ FramesOf(call.self) = <<>>) =>
       call.ret = <<>>

\* What holds of C11 in the code: only fill() on the empty Sequence throws.
TotalityButFill ==
  /\ call.op \in Operations =>
       (call.err # "none" <=> (call.op = "fill" /\ FramesOf(call.self) = <<>>))
  /\ (call.op \in {"first", "last"} /\ FramesOf(call.self) = <<>>) =>
       call.ret = <<>>

\* fill() on the empty Sequence has thrown and returned nothing.
FillOnEmptyThrows ==
  /\ call.op = "fill"
  /\ FramesOf(call.self) = <<>>
  /\ call.err = "TypeError"
  /\ call.res = <<>>

\* C12: a.intersects(b) is true exactly when a and b have a frame in common,
\* which is what the membership test alone answers, and it equals
\* b.intersects(a).
IntersectsCommon ==
  call.op = "intersects" =>
    LET a == FramesOf(call.self)
        b == FramesOf(call.other)
    IN /\ call.err = "none"
       /\ call.ret = <<Range(a) \cap Range(b) # {}>>
       /\ call.ret = <<\E k \in DOMAIN a : Includes(b, a[k])>>
       /\ call.ret = <<intersects(b, a)>>

\* Two Sequences whose bounding ranges overlap and that share no frame.
IntersectsCommonWitness ==
  LET a == FramesOf(call.self)
      b == FramesOf(call.other)
  IN /\ call.op = "intersects"
     /\ a # <<>>
     /\ b # <<>>
     /\ a[1] < b[Len(b)]
     /\ b[1] < a[Len(a)]
     /\ call.ret = <<FALSE>>

ConstantGap(run) ==
  \A k \in 2..(Len(run) - 1) : run[k + 1] - run[k] = run[2] - run[1]

\* The least number of consecutive constant-gap runs a list can be cut
\* into.  A set of cuts (a cut at p separates frames p and p + 1) gives
\* constant-gap runs when any three neighbours left together are evenly
\* spaced.
MinRuns(list) ==
  LET n == Len(list)
      Fits(cuts) ==
        \A k \in 2..(n - 1) :
          (k - 1 \notin cuts /\ k \notin cuts) =>
            list[k + 1] - list[k] = list[k] - list[k - 1]
      counts == {Cardinality(cuts) + 1 : cuts \in {c \in SUBSET (1..(n - 1)) : Fits(c)}}
  IN IF n = 0 THEN 0 ELSE CHOOSE m \in counts : \A o \in counts : m <= o

\* C14: the runs returned by progressions(), of any ascending list, the
\* empty one included, are non-empty constant-gap runs that concatenate to
\* the list, and no partition into consecutive constant-gap runs has fewer.
MinimalPartition ==
  call.op = "progressions" =>
    /\ call.err = "none"
    /\ \A k \in DOMAIN call.res :
         ResultFrames[k] # <<>> /\ ConstantGap(ResultFrames[k])
    /\ Concat(ResultFrames) = FramesOf(call.self)
    /\ Len(call.res) = MinRuns(FramesOf(call.self))

\* What holds of C14 in the code: the same for every list with a frame;
\* for the empty list one empty run is returned.
MinimalPartitionNonEmpty ==
  call.op = "progressions" =>
    /\ call.err = "none"
    /\ Concat(ResultFrames) = FramesOf(call.self)
    /\ \A k \in DOMAIN call.res : ConstantGap(ResultFrames[k])
    /\ IF FramesOf(call.self) = <<>>
       THEN ResultFrames = << <<>> >>
       ELSE /\ \A k \in DOMAIN call.res : ResultFrames[k] # <<>>
            /\ Len(call.res) = MinRuns(FramesOf(call.self))

\* progressions() of the empty Sequence has returned one empty Sequence.
EmptyRunReturned ==
  /\ call.op = "progressions"
  /\ FramesOf(call.self) = <<>>
  /\ Len(call.res) = 1
  /\ ResultFrames[1] = <<>>

\* One frame, then a constant-gap run of at least 3 frames at another
\* distance.
LeadingOutlier(list) ==
  /\ Len(list) >= 4
  /\ ConstantGap(Tail(list))
  /\ list[2] - list[1] # list[3] - list[2]

\* A constant-gap run of at least 3 frames, then one frame at another
\* distance.
TrailingOutlier(list) ==
  /\ Len(list) >= 4
  /\ ConstantGap(SubSeq(list, 1, Len(list) - 1))
  /\ list[Len(list)] - list[Len(list) - 1] # list[2] - list[1]

\* Original reading of C15: a leading outlier is the first run alone, a
\* trailing outlier the last run alone.
OutlierRunsBothEnds ==
  call.op = "progressions" =>
    LET list == FramesOf(call.self)
    IN /\ LeadingOutlier(list) => ResultFrames[1] = <<list[1]>>
       /\ TrailingOutlier(list) => ResultFrames[Len(call.res)] = <<list[Len(list)]>>

\* C15: a trailing outlier is returned as a final run of length 1; a
\* leading outlier is returned together with the first frame of the run
\* that follows it, whose other frames form the second and last run.
OutlierRuns ==
  call.op = "progressions" =>
    LET list == FramesOf(call.self)
        n == Len(list)
    IN /\ LeadingOutlier(list) =>
            ResultFrames = << <<list[1], list[2]>>, SubSeq(list, 3, n) >>
       /\ TrailingOutlier(list) =>
            ResultFrames = << SubSeq(list, 1, n - 1), <<list[n]>> >>

\* progressions() of a list with a leading outlier.
OutlierRunsWitness ==
  /\ call.op = "progressions"
  /\ LeadingOutlier(FramesOf(call.self))
  /\ Len(call.res) = 2

\* The number of frames in the first k chunks returned.
FramesThrough(k) == Len(Concat(SubSeq(ResultFrames, 1, k)))

\* The chunk k returned is followed in the receiver by a frame that breaks
\* its constant gap.
BrokenAfter(k) ==
  ~ConstantGap(Append(ResultFrames[k], FramesOf(call.self)[FramesThrough(k) + 1]))

\* C16: with enforceProgressions every chunk is a constant-gap run, and a
\* chunk that is not the last and has fewer than chunkSize frames is
\* followed by a frame that breaks its gap; without it no chunk but the
\* last has fewer than chunkSize frames.
ProgressionChunks ==
  call.op = "chunks" =>
    \A k \in DOMAIN call.res :
      /\ call.flag => ConstantGap(ResultFrames[k])
      /\ (call.flag /\ k < Len(call.res) /\ Len(ResultFrames[k]) < call.cs) =>
           BrokenAfter(k)
      /\ (~call.flag /\ k < Len(call.res)) => Len(ResultFrames[k]) >= call.cs

\* A progression break has closed a chunk that is neither full nor last.
ProgressionChunksWitness ==
  /\ call.op = "chunks"
  /\ call.flag
  /\ \E k \in DOMAIN call.res :
       /\ k < Len(call.res)
       /\ Len(ResultFrames[k]) < call.cs
       /\ BrokenAfter(k)

\* The count subsample works with.
Clamped(count, n) == Min(Max(1, count), n)

\* The index of the i-th frame selected (i from 0), in exact arithmetic.
ExactIndex(i, n, c) == ((2 * i + 1) * n) \div (2 * c)

\* C17: on a Sequence of n >= 1 frames subsample(count) returns exactly c =
\* min(max(1, count), n) frames, those at the indices floor((2i+1)n / (2c))
\* for i = 0..c-1, which are strictly increasing and within 0..n-1.
SubsampleSelection ==
  (call.op = "subsample" /\ FramesOf(call.self) # <<>>) =>
    LET frames == FramesOf(call.self)
        n == Len(frames)
        c == Clamped(call.args[1], n)
        result == FramesOf(call.res[1])
    IN /\ call.err = "none"
       /\ Len(result) = c
       /\ \A i \in 0..(c - 1) : ExactIndex(i, n, c) \in 0..(n - 1)
       /\ \A i \in 0..(c - 2) : ExactIndex(i, n, c) < ExactIndex(i + 1, n, c)
       /\ result = [k \in 1..c |-> frames[ExactIndex(k - 1, n, c) + 1]]

\* What holds of C17 in the code: exactly c frames are returned, each a
\* frame of the receiver, and the first is the one at index floor(n / (2c)).
SubsampleCount ==
  (call.op = "subsample" /\ FramesOf(call.self) # <<>>) =>
    LET frames == FramesOf(call.self)
        n == Len(frames)
        c == Clamped(call.args[1], n)
        result == FramesOf(call.res[1])
    IN /\ call.err = "none"
       /\ Len(result) = c
       /\ Range(result) \subseteq Range(frames)
       /\ result[1] = frames[ExactIndex(0, n, c) + 1]

\* subsample has returned c frames that are not those of the exact indices.
SubsampleDrift ==
  /\ call.op = "subsample"
  /\ FramesOf(call.self) # <<>>
  /\ LET frames == FramesOf(call.self)
         n == Len(frames)
         c == Clamped(call.args[1], n)
         result == FramesOf(call.res[1])
     IN /\ Len(result) = c
        /\ result # [k \in 1..c |-> frames[ExactIndex(k - 1, n, c) + 1]]

====
